---- MODULE Spec2Model ----
(***************************************************************************)
(* A model of the touchpad card (TouchpadCard, a LitElement): the gesture  *)
(* classifier, the delta accumulators with their frame flush, and the      *)
(* WebSocket channel with reconnect backoff and debounced status.          *)
(*                                                                         *)
(* The card's fields are the record `card'; every handler of the source is *)
(* an operator from a card (and the handler's inputs, and the clock value  *)
(* performance.now() it runs at) to the card it leaves behind, composed of *)
(* the same helper calls as the source.  An action applies one handler.    *)
(*                                                                         *)
(* Time is the variable `now', in ms.  A timer (setTimeout) is the         *)
(* absolute time its callback is due; the callback runs at that time, in   *)
(* any order with the other events of the same instant, and time does not  *)
(* pass a due timer.  A requested animation frame runs before time passes. *)
(*                                                                         *)
(* `fingers' is the host's side of the pointer stream: the pointers that   *)
(* are physically down, with their pointerType.  `hist' records, of the    *)
(* inputs and outputs so far, what the properties below refer to; no       *)
(* handler reads it.                                                       *)
(***************************************************************************)
EXTENDS Integers, Sequences, FiniteSets, TLC

VARIABLES card, now, fingers, hist

vars == <<card, now, fingers, hist>>

(* ---------------------------------------------------------------------- *)
(* Constants of the source                                                 *)
(* ---------------------------------------------------------------------- *)
HOLD_DELAY_MS == 320
HOLD_CANCEL_PX == 3
RECONNECT_BASE_MS == 1500
RECONNECT_MAX_MS == 15000
STATUS_DEBOUNCE_MS == 600
DETACH_DELAY_MS == 2000
DoubleTapMsDefault == 250
TapSuppressionPxDefault == 6

\* A timer field holding `undefined'.
NoTimer == -1
\* A pointer-id field holding `undefined' (pointer ids are 1, 2, ...).
NoPointer == 0

\* Centroids are means over 1, 2 or 3 contacts: positions are in px, and
\* centroids, accumulated deltas and the dx, dy of a wire message are carried
\* in units of 1/CentroidScale px, so that the means are exact.
CentroidScale == 2 * 3

(* ---------------------------------------------------------------------- *)
(* Bounds of the model                                                     *)
(* ---------------------------------------------------------------------- *)
\* The clock stops advancing here.
MaxTime == 1000
\* Sockets dropped by teardownSocket whose close event is still to come.
MaxDropped == 2
\* Accumulations (pointer moves that reach queueSend) between two flushes.
MaxMoves == 2

(* ---------------------------------------------------------------------- *)
(* Arithmetic helpers                                                      *)
(* ---------------------------------------------------------------------- *)
Abs(n) == IF n < 0 THEN -n ELSE n
Min(a, b) == IF a <= b THEN a ELSE b
Max(a, b) == IF a >= b THEN a ELSE b

\* Math.hypot(dx, dy) <= r, for integer dx, dy and r >= 0.
HypotLeq(dx, dy, r) == dx * dx + dy * dy <= r * r

\* Math.round(x * 1.8) for an integer x >= 0 (round half up).
RoundTimes18(x) == (18 * x + 5) \div 10

Zero2 == <<0, 0>>

(* ---------------------------------------------------------------------- *)
(* The card after construction (field initialisers)                        *)
(* ---------------------------------------------------------------------- *)
NoPointers == <<>>

\* A JSON value as restoreUiState tests it: by its typeof and, for a boolean
\* or a number, by its value.  A field the object lacks reads as undefined.
JBool(b) == [type |-> "boolean", b |-> b, n |-> 0]
JNum(n) == [type |-> "number", b |-> FALSE, n |-> n]
JStr == [type |-> "string", b |-> FALSE, n |-> 0]
JUndefined == [type |-> "undefined", b |-> FALSE, n |-> 0]

\* The localStorage entry under the card's persistence key: absent, the empty
\* string, text that does not parse ("corrupt"), the JSON text null, or a
\* JSON object with its three fields.
StoreEntry(kind, locked, speedMultiplier, keyboardOpen) ==
  [kind |-> kind, locked |-> locked, speedMultiplier |-> speedMultiplier,
   keyboardOpen |-> keyboardOpen]
StoreOther(kind) == StoreEntry(kind, JUndefined, JUndefined, JUndefined)
StoreAbsent == StoreOther("absent")

\* The target addresses a configuration may name ("" is a missing wsUrl).
Urls == {"ws://a", "ws://b", "bad"}

InitCard ==
  [ \* _config / opts
    wsUrl |-> "",
    sensitivity |-> 1,
    scrollMultiplier |-> 1,
    invertScroll |-> FALSE,
    doubleTapMs |-> DoubleTapMsDefault,
    tapSuppressionPx |-> TapSuppressionPxDefault,
    showKeyboardButton |-> TRUE,
    \* @state fields
    connected |-> FALSE,
    status |-> "disconnected",
    statusDisplay |-> "disconnected",
    locked |-> FALSE,
    speedMultiplier |-> 1,
    keyboardOpen |-> FALSE,
    \* channel
    socket |-> "none",
    reconnectTimer |-> NoTimer,
    rafHandle |-> FALSE,
    statusTimer |-> NoTimer,
    statusNext |-> "none",
    detachTimer |-> NoTimer,
    wsErrorNotified |-> FALSE,
    reconnectDelayMs |-> RECONNECT_BASE_MS,
    \* gesture context
    pointers |-> NoPointers,
    gesture |-> "none",
    moveAccum |-> Zero2,
    scrollAccum |-> Zero2,
    lastTapTime |-> 0,
    tapTimer |-> NoTimer,
    holdTimer |-> NoTimer,
    holdPointer |-> NoPointer,
    dragPointerId |-> NoPointer,
    lockedPanId |-> NoPointer,
    lockedPanLastY |-> 0,
    \* what the handlers act on outside the object
    attached |-> FALSE,
    frames |-> 0,
    droppedOpen |-> 0,
    droppedConnecting |-> 0,
    storageOk |-> TRUE,
    store |-> [u \in Urls |-> StoreAbsent],
    \* what the running handler has put out
    wire |-> <<>>,
    log |-> <<>>,
    scrolled |-> <<>>,
    thrown |-> FALSE ]

\* A wire message (TouchpadMessage); dx, dy are 0 for the discrete kinds.
Msg(t) == [t |-> t, dx |-> 0, dy |-> 0]
MsgDelta(t, v) == [t |-> t, dx |-> v[1], dy |-> v[2]]

\* The card as a handler finds it: nothing put out yet.
Fresh(s) == [s EXCEPT !.wire = <<>>, !.log = <<>>, !.scrolled = <<>>, !.thrown = FALSE]

(* ---------------------------------------------------------------------- *)
(* Transport channel                                                       *)
(* ---------------------------------------------------------------------- *)
\* new WebSocket(url) throws for a url it cannot parse.
UrlThrows(url) == url = "bad"

\* setStatus without the debounce: the display follows at once.
SetStatusUndebounced(s, next, t) ==
  [s EXCEPT !.status = next, !.statusTimer = NoTimer, !.statusNext = "none",
            !.statusDisplay = next]

SetStatus(s, next, t) ==
  IF next = "connected"
  THEN [s EXCEPT !.status = next, !.statusTimer = NoTimer, !.statusNext = "none",
                 !.statusDisplay = next]
  ELSE [s EXCEPT !.status = next, !.statusTimer = t + STATUS_DEBOUNCE_MS,
                 !.statusNext = next]

\* socket.close() on the socket being dropped: an open socket closes cleanly
\* (close event to come), a connecting one fails (error and close events to
\* come), a closed one does nothing.  The listeners stay attached.
TeardownSocket(s) ==
  LET s1 == [s EXCEPT !.reconnectTimer = NoTimer] IN
  IF s1.socket = "none" THEN s1
  ELSE [s1 EXCEPT !.socket = "none",
                  !.droppedOpen = IF s.socket = "OPEN" THEN @ + 1 ELSE @,
                  !.droppedConnecting = IF s.socket = "CONNECTING" THEN @ + 1 ELSE @]

Connect(s, t) ==
  LET s1 == TeardownSocket(s) IN
  IF s1.wsUrl = "" THEN SetStatus(s1, "disconnected", t)
  ELSE LET s2 == [SetStatus(s1, "connecting", t) EXCEPT !.wsErrorNotified = FALSE] IN
       IF UrlThrows(s2.wsUrl)
       THEN SetStatus([s2 EXCEPT !.log = Append(@, "init")], "error", t)
       ELSE [s2 EXCEPT !.socket = "CONNECTING"]

\* scheduleReconnect without the ceiling.
ScheduleReconnectUncapped(s, t) ==
  IF s.wsUrl = "" \/ s.reconnectTimer # NoTimer THEN s
  ELSE [s EXCEPT !.reconnectTimer = t + s.reconnectDelayMs,
                 !.reconnectDelayMs = RoundTimes18(s.reconnectDelayMs)]

ScheduleReconnect(s, t) ==
  IF s.wsUrl = "" \/ s.reconnectTimer # NoTimer THEN s
  ELSE [s EXCEPT !.reconnectTimer = t + s.reconnectDelayMs,
                 !.reconnectDelayMs = Min(RoundTimes18(s.reconnectDelayMs), RECONNECT_MAX_MS)]

\* The three socket listeners.
OnOpen(s, t) ==
  SetStatus([s EXCEPT !.connected = TRUE, !.wsErrorNotified = FALSE,
                      !.reconnectDelayMs = RECONNECT_BASE_MS], "connected", t)

OnClose(s, t) ==
  ScheduleReconnect(SetStatus([s EXCEPT !.connected = FALSE], "connecting", t), t)

OnError(s, t) ==
  LET s1 == IF ~s.wsErrorNotified
            THEN [s EXCEPT !.log = Append(@, "ws"), !.wsErrorNotified = TRUE]
            ELSE s
  IN SetStatus(s1, "error", t)

\* socket.readyState === WebSocket.OPEN on a socket the card holds.
Sendable(s) == s.socket = "OPEN"

Send(s, m) == IF ~Sendable(s) THEN s ELSE [s EXCEPT !.wire = Append(@, m)]

SendTap(s, kind) == Send(s, Msg(kind))
SendButton(s, kind) == Send(s, Msg(kind))
SendText(s, text) == IF text = "" THEN s ELSE Send(s, Msg("text"))
SendKey(s, key) == Send(s, Msg("key"))
SendVolume(s, action) == Send(s, Msg("volume"))

(* ---------------------------------------------------------------------- *)
(* Delta accumulators and the frame flush                                  *)
(* ---------------------------------------------------------------------- *)
\* queueSend without its guard: every accumulation requests a frame.
QueueSendAlways(s) == [s EXCEPT !.rafHandle = TRUE, !.frames = @ + 1]

QueueSend(s) ==
  IF s.rafHandle THEN s
  ELSE [s EXCEPT !.rafHandle = TRUE, !.frames = @ + 1]

NonZero(v) == Abs(v[1]) > 0 \/ Abs(v[2]) > 0

\* flush sending scroll before move.
FlushScrollFirst(s) ==
  IF ~Sendable(s)
  THEN [s EXCEPT !.moveAccum = Zero2, !.scrollAccum = Zero2]
  ELSE LET mv == IF NonZero(s.moveAccum) THEN <<MsgDelta("move", s.moveAccum)>> ELSE <<>>
           sc == IF NonZero(s.scrollAccum) THEN <<MsgDelta("scroll", s.scrollAccum)>> ELSE <<>>
       IN [s EXCEPT !.moveAccum = Zero2, !.scrollAccum = Zero2,
                    !.wire = @ \o sc \o mv]

\* flush sending one message per frame: the scroll delta waits when a move
\* delta is sent.
FlushOneKind(s) ==
  IF ~Sendable(s)
  THEN [s EXCEPT !.moveAccum = Zero2, !.scrollAccum = Zero2]
  ELSE IF NonZero(s.moveAccum)
  THEN [s EXCEPT !.moveAccum = Zero2, !.wire = @ \o <<MsgDelta("move", s.moveAccum)>>]
  ELSE IF NonZero(s.scrollAccum)
  THEN [s EXCEPT !.scrollAccum = Zero2, !.wire = @ \o <<MsgDelta("scroll", s.scrollAccum)>>]
  ELSE s

\* flush keeping the deltas it cannot send.
FlushKeepsUnsent(s) ==
  IF ~Sendable(s) THEN s
  ELSE LET mv == IF NonZero(s.moveAccum) THEN <<MsgDelta("move", s.moveAccum)>> ELSE <<>>
           sc == IF NonZero(s.scrollAccum) THEN <<MsgDelta("scroll", s.scrollAccum)>> ELSE <<>>
       IN [s EXCEPT !.moveAccum = Zero2, !.scrollAccum = Zero2,
                    !.wire = @ \o mv \o sc]

Flush(s) ==
  IF ~Sendable(s)
  THEN [s EXCEPT !.moveAccum = Zero2, !.scrollAccum = Zero2]
  ELSE LET mv == IF NonZero(s.moveAccum) THEN <<MsgDelta("move", s.moveAccum)>> ELSE <<>>
           sc == IF NonZero(s.scrollAccum) THEN <<MsgDelta("scroll", s.scrollAccum)>> ELSE <<>>
       IN [s EXCEPT !.moveAccum = Zero2, !.scrollAccum = Zero2,
                    !.wire = @ \o mv \o sc]

\* The callback queueSend hands to requestAnimationFrame.
OnFrame(s) == Flush([s EXCEPT !.rafHandle = FALSE, !.frames = @ - 1])

(* ---------------------------------------------------------------------- *)
(* Pointer tracker and gesture classifier                                  *)
(* ---------------------------------------------------------------------- *)
HoldTypes == {"touch", "pen"}

RECURSIVE SumX(_, _)
SumX(ptrs, ids) ==
  IF ids = {} THEN 0
  ELSE LET i == CHOOSE j \in ids : TRUE IN ptrs[i].x + SumX(ptrs, ids \ {i})

RECURSIVE SumY(_, _)
SumY(ptrs, ids) ==
  IF ids = {} THEN 0
  ELSE LET i == CHOOSE j \in ids : TRUE IN ptrs[i].y + SumY(ptrs, ids \ {i})

Size(ptrs) == Cardinality(DOMAIN ptrs)

Centroid(ptrs) ==
  IF Size(ptrs) = 0 THEN Zero2
  ELSE <<(SumX(ptrs, DOMAIN ptrs) * CentroidScale) \div Size(ptrs),
         (SumY(ptrs, DOMAIN ptrs) * CentroidScale) \div Size(ptrs)>>

\* Map.delete
Without(ptrs, id) == [i \in DOMAIN ptrs \ {id} |-> ptrs[i]]

CancelHoldTimer(s) == [s EXCEPT !.holdTimer = NoTimer, !.holdPointer = NoPointer]

StartHoldTimer(s, id, ptype, t) ==
  IF ptype \notin HoldTypes THEN s
  ELSE [CancelHoldTimer(s) EXCEPT !.holdTimer = t + HOLD_DELAY_MS, !.holdPointer = id]

\* endDragIfNeeded() as its callers use it, without a pointer id.
EndDragIfNeeded(s) ==
  IF s.dragPointerId = NoPointer THEN s
  ELSE [SendButton(s, "up") EXCEPT !.dragPointerId = NoPointer]

OnHoldTimerNoDragId(s) ==
  LET id == s.holdPointer IN
  IF id \notin DOMAIN s.pointers THEN [s EXCEPT !.holdPointer = NoPointer]
  ELSE LET pointer == s.pointers[id]
           s1 == IF /\ Size(s.pointers) = 1
                    /\ s.gesture = "move"
                    /\ s.dragPointerId = NoPointer
                    /\ HypotLeq(pointer.x - pointer.startX, pointer.y - pointer.startY,
                                HOLD_CANCEL_PX)
                 THEN SendButton(s, "down")
                 ELSE s
       IN [s1 EXCEPT !.holdTimer = NoTimer, !.holdPointer = NoPointer]

\* The callback of the hold timer.  Its early return leaves the field
\* holdTimer set although the timer has run: holdPointer = NoPointer with
\* holdTimer set is that spent handle.
OnHoldTimer(s) ==
  LET id == s.holdPointer IN
  IF id \notin DOMAIN s.pointers THEN [s EXCEPT !.holdPointer = NoPointer]
  ELSE LET pointer == s.pointers[id]
           s1 == IF /\ Size(s.pointers) = 1
                    /\ s.gesture = "move"
                    /\ s.dragPointerId = NoPointer
                    /\ HypotLeq(pointer.x - pointer.startX, pointer.y - pointer.startY,
                                HOLD_CANCEL_PX)
                 THEN SendButton([s EXCEPT !.dragPointerId = id], "down")
                 ELSE s
       IN [s1 EXCEPT !.holdTimer = NoTimer, !.holdPointer = NoPointer]

\* The callback of the tap timer.
OnTapTimer(s) ==
  [SendTap(s, "click") EXCEPT !.lastTapTime = 0, !.tapTimer = NoTimer]

PanTypes == {"touch", "pen"}

StartLockedPan(s, id, p, ptype) ==
  IF ptype \notin PanTypes THEN s
  ELSE [s EXCEPT !.lockedPanId = id, !.lockedPanLastY = p[2]]

MoveLockedPan(s, id, p, ptype) ==
  IF s.lockedPanId = NoPointer \/ s.lockedPanId # id THEN s
  ELSE IF ptype \notin PanTypes THEN s
  ELSE LET deltaY == p[2] - s.lockedPanLastY IN
       IF deltaY # 0
       THEN [s EXCEPT !.scrolled = Append(@, -deltaY), !.lockedPanLastY = p[2]]
       ELSE s

EndLockedPan(s, id) ==
  IF s.lockedPanId = id
  THEN [s EXCEPT !.lockedPanId = NoPointer, !.lockedPanLastY = 0]
  ELSE s

\* handlePointerDown leaving an engaged drag alone when a second contact lands.
HandlePointerDownKeepsDrag(s, id, p, ptype, t) ==
  IF s.locked THEN StartLockedPan(s, id, p, ptype)
  ELSE LET ptrs == (id :> [x |-> p[1], y |-> p[2], startX |-> p[1], startY |-> p[2],
                           startTime |-> t]) @@ s.pointers
           s1 == [s EXCEPT !.pointers = ptrs]
       IN IF Size(ptrs) = 1
          THEN StartHoldTimer([s1 EXCEPT !.gesture = "move"], id, ptype, t)
          ELSE [CancelHoldTimer(s1) EXCEPT !.gesture = "scroll"]

HandlePointerDown(s, id, p, ptype, t) ==
  IF s.locked THEN StartLockedPan(s, id, p, ptype)
  ELSE LET ptrs == (id :> [x |-> p[1], y |-> p[2], startX |-> p[1], startY |-> p[2],
                           startTime |-> t]) @@ s.pointers
           s1 == [s EXCEPT !.pointers = ptrs]
       IN IF Size(ptrs) = 1
          THEN StartHoldTimer([s1 EXCEPT !.gesture = "move"], id, ptype, t)
          ELSE [EndDragIfNeeded(CancelHoldTimer(s1)) EXCEPT !.gesture = "scroll"]

\* handlePointerMove leaving the hold timer alone when the contact strays.
HandlePointerMoveKeepsHold(s, id, p, ptype, t) ==
  IF s.locked THEN MoveLockedPan(s, id, p, ptype)
  ELSE IF id \notin DOMAIN s.pointers THEN s
  ELSE LET before == Centroid(s.pointers)
           pointer == [s.pointers[id] EXCEPT !.x = p[1], !.y = p[2]]
           ptrs == [s.pointers EXCEPT ![id] = pointer]
           after == Centroid(ptrs)
           s2 == [s EXCEPT !.pointers = ptrs]
           s3 == IF Size(ptrs) >= 2
                 THEN [EndDragIfNeeded(CancelHoldTimer(s2)) EXCEPT !.gesture = "scroll"]
                 ELSE s2
       IN IF s3.gesture = "move" /\ Size(ptrs) = 1
          THEN LET mult == s3.sensitivity * s3.speedMultiplier IN
               QueueSend([s3 EXCEPT !.moveAccum =
                            <<@[1] + (after[1] - before[1]) * mult,
                              @[2] + (after[2] - before[2]) * mult>>])
          ELSE IF s3.gesture = "scroll" /\ Size(ptrs) >= 2
          THEN LET dir == IF s3.invertScroll THEN -1 ELSE 1 IN
               QueueSend([s3 EXCEPT !.scrollAccum =
                            <<@[1] + (after[1] - before[1]) * s3.scrollMultiplier * dir,
                              @[2] + (after[2] - before[2]) * s3.scrollMultiplier * dir>>])
          ELSE s3

HandlePointerMove(s, id, p, ptype, t) ==
  IF s.locked THEN MoveLockedPan(s, id, p, ptype)
  ELSE IF id \notin DOMAIN s.pointers THEN s
  ELSE LET before == Centroid(s.pointers)
           pointer == [s.pointers[id] EXCEPT !.x = p[1], !.y = p[2]]
           ptrs == [s.pointers EXCEPT ![id] = pointer]
           after == Centroid(ptrs)
           far == ~HypotLeq(pointer.x - pointer.startX, pointer.y - pointer.startY,
                            HOLD_CANCEL_PX)
           s1 == [s EXCEPT !.pointers = ptrs]
           s2 == IF s1.holdTimer # NoTimer /\ far THEN CancelHoldTimer(s1) ELSE s1
           s3 == IF Size(ptrs) >= 2
                 THEN [EndDragIfNeeded(CancelHoldTimer(s2)) EXCEPT !.gesture = "scroll"]
                 ELSE s2
       IN IF s3.gesture = "move" /\ Size(ptrs) = 1
          THEN LET mult == s3.sensitivity * s3.speedMultiplier IN
               QueueSend([s3 EXCEPT !.moveAccum =
                            <<@[1] + (after[1] - before[1]) * mult,
                              @[2] + (after[2] - before[2]) * mult>>])
          ELSE IF s3.gesture = "scroll" /\ Size(ptrs) >= 2
          THEN LET dir == IF s3.invertScroll THEN -1 ELSE 1 IN
               QueueSend([s3 EXCEPT !.scrollAccum =
                            <<@[1] + (after[1] - before[1]) * s3.scrollMultiplier * dir,
                              @[2] + (after[2] - before[2]) * s3.scrollMultiplier * dir>>])
          ELSE s3

\* The tap branch of handlePointerUp, taken when the last contact is removed.
TapOrDoubleTap(s, t) ==
  LET s1 == [s EXCEPT !.tapTimer = NoTimer] IN
  IF t - s1.lastTapTime <= s1.doubleTapMs
  THEN [SendTap(s1, "double_click") EXCEPT !.lastTapTime = 0]
  ELSE [s1 EXCEPT !.lastTapTime = t, !.tapTimer = t + s1.doubleTapMs]

\* The two-finger-tap branch of handlePointerUp.
RightClickTapKeepsContacts(s) == [SendTap(s, "right_click") EXCEPT !.gesture = "none"]

RightClickTap(s) ==
  [SendTap(s, "right_click") EXCEPT !.pointers = NoPointers, !.gesture = "none"]

HandlePointerUp(s, id, p, t) ==
  IF s.locked THEN EndLockedPan(s, id)
  ELSE IF id \notin DOMAIN s.pointers THEN s
  ELSE LET pointer == s.pointers[id]
           wasDragging == s.dragPointerId = id
           s1 == IF wasDragging
                 THEN [SendButton(s, "up") EXCEPT !.dragPointerId = NoPointer]
                 ELSE s
           s2 == CancelHoldTimer(s1)
           beforeCount == Size(s.pointers)
           distOk == HypotLeq(p[1] - pointer.startX, p[2] - pointer.startY,
                              s.tapSuppressionPx)
           duration == t - pointer.startTime
           ptrs == Without(s.pointers, id)
           s3 == [s2 EXCEPT !.pointers = ptrs]
           rightClick ==
             /\ beforeCount = 2
             /\ Size(ptrs) > 0
             /\ LET remaining == ptrs[CHOOSE i \in DOMAIN ptrs : TRUE] IN
                  /\ distOk
                  /\ HypotLeq(remaining.x - remaining.startX,
                              remaining.y - remaining.startY, s.tapSuppressionPx)
                  /\ t - Min(pointer.startTime, remaining.startTime) <= s.doubleTapMs
       IN IF rightClick
          THEN RightClickTap(s3)
          ELSE IF Size(ptrs) = 0
          THEN LET s4 == IF /\ ~wasDragging
                            /\ s3.gesture = "move"
                            /\ distOk
                            /\ duration <= s.doubleTapMs
                         THEN TapOrDoubleTap(s3, t)
                         ELSE s3
               IN [s4 EXCEPT !.gesture = "none"]
          ELSE IF Size(ptrs) = 1 /\ s3.gesture = "scroll"
          THEN [s3 EXCEPT !.gesture = "move"]
          ELSE s3

\* handlePointerCancel going on to the classifier on a locked surface.
HandlePointerCancelThrough(s, id) ==
  LET s0 == IF s.locked THEN EndLockedPan(s, id) ELSE s
      s1 == [s0 EXCEPT !.pointers = Without(@, id)]
      s2 == IF s1.dragPointerId = id
            THEN [SendButton(s1, "up") EXCEPT !.dragPointerId = NoPointer]
            ELSE s1
      s3 == CancelHoldTimer(s2)
  IN IF Size(s3.pointers) = 0 THEN [s3 EXCEPT !.gesture = "none"] ELSE s3

HandlePointerCancel(s, id) ==
  IF s.locked THEN EndLockedPan(s, id)
  ELSE LET s1 == [s EXCEPT !.pointers = Without(@, id)]
           s2 == IF s1.dragPointerId = id
                 THEN [SendButton(s1, "up") EXCEPT !.dragPointerId = NoPointer]
                 ELSE s1
           s3 == CancelHoldTimer(s2)
       IN IF Size(s3.pointers) = 0 THEN [s3 EXCEPT !.gesture = "none"] ELSE s3

(* ---------------------------------------------------------------------- *)
(* UI state store and toggles                                              *)
(* ---------------------------------------------------------------------- *)
\* restoreUiState without its try/catch: the exception reaches the caller.
RestoreUiStateUncaught(s) ==
  IF ~s.storageOk \/ s.wsUrl = "" THEN s
  ELSE LET raw == s.store[s.wsUrl] IN
       IF raw.kind \in {"absent", "empty"} THEN s
       ELSE IF raw.kind \in {"corrupt", "null"} THEN [s EXCEPT !.thrown = TRUE]
       ELSE [s EXCEPT !.locked = IF raw.locked.type = "boolean" THEN raw.locked.b ELSE @,
                      !.speedMultiplier =
                         IF /\ raw.speedMultiplier.type = "number"
                            /\ raw.speedMultiplier.n \in {1, 2, 3, 4}
                         THEN raw.speedMultiplier.n ELSE @,
                      !.keyboardOpen =
                         IF raw.keyboardOpen.type = "boolean" /\ s.showKeyboardButton
                         THEN raw.keyboardOpen.b ELSE @]

\* restoreUiState: JSON.parse throws on text that does not parse, and reading
\* a field of null throws; the catch block logs either and assigns nothing.
RestoreUiState(s) ==
  IF ~s.storageOk \/ s.wsUrl = "" THEN s
  ELSE LET raw == s.store[s.wsUrl] IN
       IF raw.kind \in {"absent", "empty"} THEN s
       ELSE IF raw.kind \in {"corrupt", "null"} THEN [s EXCEPT !.log = Append(@, "restore")]
       ELSE [s EXCEPT !.locked = IF raw.locked.type = "boolean" THEN raw.locked.b ELSE @,
                      !.speedMultiplier =
                         IF /\ raw.speedMultiplier.type = "number"
                            /\ raw.speedMultiplier.n \in {1, 2, 3, 4}
                         THEN raw.speedMultiplier.n ELSE @,
                      !.keyboardOpen =
                         IF raw.keyboardOpen.type = "boolean" /\ s.showKeyboardButton
                         THEN raw.keyboardOpen.b ELSE @]

\* persistUiState writing the lock state only.
PersistUiStateLockOnly(s) ==
  IF ~s.storageOk \/ s.wsUrl = "" THEN s
  ELSE [s EXCEPT !.store[s.wsUrl] =
          StoreEntry("json", JBool(s.locked), JUndefined, JUndefined)]

PersistUiState(s) ==
  IF ~s.storageOk \/ s.wsUrl = "" THEN s
  ELSE [s EXCEPT !.store[s.wsUrl] =
          StoreEntry("json", JBool(s.locked), JNum(s.speedMultiplier),
                     JBool(IF s.showKeyboardButton THEN s.keyboardOpen ELSE FALSE))]

ToggleLock(s) ==
  LET s1 == IF ~s.locked /\ s.dragPointerId # NoPointer
            THEN [SendButton(s, "up") EXCEPT !.dragPointerId = NoPointer]
            ELSE s
      s2 == CancelHoldTimer(s1)
  IN PersistUiState([s2 EXCEPT !.lockedPanId = NoPointer, !.lockedPanLastY = 0,
                               !.locked = ~s.locked])

ToggleKeyboardPanel(s) ==
  IF ~s.showKeyboardButton THEN s
  ELSE PersistUiState([s EXCEPT !.keyboardOpen = ~@])

\* toggleSpeed that never returns to 1.
ToggleSpeedSticky(s, mult) ==
  PersistUiState([s EXCEPT !.speedMultiplier = mult])

ToggleSpeed(s, mult) ==
  PersistUiState([s EXCEPT !.speedMultiplier = IF @ = mult THEN 1 ELSE mult])

(* ---------------------------------------------------------------------- *)
(* Configuration and host lifecycle                                        *)
(* ---------------------------------------------------------------------- *)
\* A configuration object: the fields of TouchpadCardConfig the model reads,
\* the optional ones already defaulted.
Config(url, dtm, tsp) ==
  [wsUrl |-> url, sensitivity |-> 1, scrollMultiplier |-> 1, invertScroll |-> FALSE,
   doubleTapMs |-> dtm, tapSuppressionPx |-> tsp, showKeyboardButton |-> TRUE]

\* setConfig without the wsUrl check.
SetConfigUnchecked(s, config, t) ==
  LET s1 == [s EXCEPT !.wsUrl = config.wsUrl,
                      !.sensitivity = config.sensitivity,
                      !.scrollMultiplier = config.scrollMultiplier,
                      !.invertScroll = config.invertScroll,
                      !.doubleTapMs = config.doubleTapMs,
                      !.tapSuppressionPx = config.tapSuppressionPx,
                      !.showKeyboardButton = config.showKeyboardButton,
                      !.locked = FALSE,
                      !.keyboardOpen = FALSE,
                      !.speedMultiplier = 1]
  IN Connect(RestoreUiState(s1), t)

\* setConfig throws for a missing wsUrl and leaves the card as it was.
SetConfig(s, config, t) ==
  IF config.wsUrl = "" THEN [s EXCEPT !.thrown = TRUE]
  ELSE LET s1 == [s EXCEPT !.wsUrl = config.wsUrl,
                           !.sensitivity = config.sensitivity,
                           !.scrollMultiplier = config.scrollMultiplier,
                           !.invertScroll = config.invertScroll,
                           !.doubleTapMs = config.doubleTapMs,
                           !.tapSuppressionPx = config.tapSuppressionPx,
                           !.showKeyboardButton = config.showKeyboardButton,
                           !.locked = FALSE,
                           !.keyboardOpen = FALSE,
                           !.speedMultiplier = 1]
       IN Connect(RestoreUiState(s1), t)

\* connectedCallback connecting whatever the socket's state.
ConnectedCallbackAlwaysConnects(s, t) ==
  LET s1 == [s EXCEPT !.attached = TRUE, !.detachTimer = NoTimer] IN
  IF s1.wsUrl # "" THEN Connect(s1, t) ELSE s1

ConnectedCallback(s, t) ==
  LET s1 == [s EXCEPT !.attached = TRUE, !.detachTimer = NoTimer] IN
  IF s1.wsUrl # "" /\ s1.socket \in {"none", "CLOSED"} THEN Connect(s1, t) ELSE s1

\* disconnectedCallback leaving the tap timer pending.
DisconnectedCallbackKeepsTapTimer(s, t) ==
  LET s1 == [s EXCEPT !.attached = FALSE,
                      !.statusTimer = NoTimer, !.statusNext = "none"]
      s2 == CancelHoldTimer(s1)
      s3 == IF s2.dragPointerId # NoPointer
            THEN [SendButton(s2, "up") EXCEPT !.dragPointerId = NoPointer]
            ELSE s2
  IN [s3 EXCEPT !.detachTimer = t + DETACH_DELAY_MS]

DisconnectedCallback(s, t) ==
  LET s1 == [s EXCEPT !.attached = FALSE, !.tapTimer = NoTimer,
                      !.statusTimer = NoTimer, !.statusNext = "none"]
      s2 == CancelHoldTimer(s1)
      s3 == IF s2.dragPointerId # NoPointer
            THEN [SendButton(s2, "up") EXCEPT !.dragPointerId = NoPointer]
            ELSE s2
  IN [s3 EXCEPT !.detachTimer = t + DETACH_DELAY_MS]

\* The callbacks of the detach, reconnect and status timers.
OnDetachTimer(s) == [TeardownSocket(s) EXCEPT !.detachTimer = NoTimer]

OnReconnectTimer(s, t) == Connect([s EXCEPT !.reconnectTimer = NoTimer], t)

OnStatusTimer(s) ==
  [s EXCEPT !.statusDisplay = s.statusNext, !.statusTimer = NoTimer, !.statusNext = "none"]

(* ---------------------------------------------------------------------- *)
(* History                                                                 *)
(* ---------------------------------------------------------------------- *)
Kinds(w) == {w[i].t : i \in DOMAIN w}

\* The kinds of the console messages the running handler has logged.
Logged(s) == {s.log[i] : i \in DOMAIN s.log}

\* No toggle yet, or the entry under the last toggle's key has since been
\* written from outside the card.
NoToggle ==
  [set |-> FALSE, url |-> "", locked |-> FALSE, speedMultiplier |-> 1, keyboardOpen |-> FALSE]

InitHist ==
  [ ev |-> "init",          \* the event of the last step
    tapped |-> FALSE,       \* the last step released a qualifying tap
    openTaps |-> 0,         \* qualifying taps released, not yet answered
    multi |-> FALSE,        \* the gesture has had two or more contacts
    twoTap |-> FALSE,       \* the last step lifted one finger of a two-finger tap
    gestureDelta |-> FALSE, \* moveAccum holds a delta of the gesture under way
    gestureMoveSent |-> FALSE, \* a move carrying such a delta has been sent
    holdOk |-> FALSE,       \* a sole touch contact, alone and within 3 px since its down
    holdRan |-> FALSE,      \* ... and its hold time has elapsed and the callback has run
    heldUp |-> FALSE,       \* the last step lifted such a contact
    accCalls |-> 0,         \* accumulations since the last flush
    offlineDelta |-> FALSE, \* an accumulator holds a delta made while not sendable
    dropped |-> FALSE,      \* the last step's flush found the socket not sendable and a delta to drop
    lastDelay |-> 0,        \* delay of the last reconnect scheduled since the last open
    scheduled |-> FALSE,    \* the last step scheduled a reconnect
    cycleStart |-> NoTimer, \* when the transport error of the cycle under way occurred
    cycleDisplay |-> "none", \* the display status at that moment
    fastCycle |-> "none",   \* the last step's open ended a cycle under 600 ms: what was displayed
    quiet |-> FALSE,        \* detached, or re-attached with no pointer event since
    reported |-> FALSE,     \* a socket error has been logged since the last open
    mult |-> 0,             \* the multiplier of the speed button the last step pressed
    untracked |-> FALSE,    \* the last step's move, up or cancel named no tracked contact
    again |-> FALSE,        \* the last step's down named a contact already tracked
    strayed |-> {},         \* tracked contacts that went more than 3 px from their start
                            \* while their hold timer was pending
    pressed |-> FALSE,      \* of the down and up messages sent, the last was a down
    ui |-> NoToggle ]       \* the toggle state the last toggle left, and under which address

\* Displacement of position p from the start of contact c within r px.
NearStart(c, p, r) == HypotLeq(p[1] - c.startX, p[2] - c.startY, r)

\* A qualifying tap: the only contact of its gesture, lifted within
\* tapSuppressionPx of its start and doubleTapMs of its down, no drag engaged.
QualifyingTap(h, s, e, t) ==
  /\ e.ev = "up"
  /\ ~s.locked
  /\ e.id \in DOMAIN s.pointers
  /\ Size(s.pointers) = 1
  /\ ~h.multi
  /\ s.dragPointerId # e.id
  /\ NearStart(s.pointers[e.id], e.p, s.tapSuppressionPx)
  /\ t - s.pointers[e.id].startTime <= s.doubleTapMs

\* A two-finger tap: exactly two contacts, both within tapSuppressionPx of
\* their starts, one lifted within doubleTapMs of the earlier one's down.
TwoFingerTap(s, e, t) ==
  /\ e.ev = "up"
  /\ ~s.locked
  /\ e.id \in DOMAIN s.pointers
  /\ Size(s.pointers) = 2
  /\ NearStart(s.pointers[e.id], e.p, s.tapSuppressionPx)
  /\ \A i \in DOMAIN s.pointers \ {e.id} :
        /\ NearStart(s.pointers[i], <<s.pointers[i].x, s.pointers[i].y>>, s.tapSuppressionPx)
        /\ t - Min(s.pointers[e.id].startTime, s.pointers[i].startTime) <= s.doubleTapMs

\* The history after event e = [ev, id, p, ptype] took card s to card s2 at time t.
NextHist(h, s, s2, e, t) ==
  LET tapped == QualifyingTap(h, s, e, t)
      answered == Kinds(s2.wire) \cap {"click", "double_click"} # {}
      twoTap == TwoFingerTap(s, e, t)
      firstDown == e.ev = "down" /\ ~s.locked /\ Size(s.pointers) = 0
      movesAlone == /\ e.ev = "move" /\ ~s.locked /\ e.id \in DOMAIN s.pointers
                    /\ Size(s.pointers) = 1 /\ s.gesture = "move"
                    /\ <<s.pointers[e.id].x, s.pointers[e.id].y>> # e.p
      accumulates == s2.moveAccum # s.moveAccum \/ s2.scrollAccum # s.scrollAccum
      gestureDelta == IF e.ev = "frame" \/ firstDown THEN FALSE
                      ELSE h.gestureDelta \/ movesAlone
      strays == /\ e.ev = "move" /\ e.id \in DOMAIN s.pointers
                /\ ~NearStart(s.pointers[e.id], e.p, HOLD_CANCEL_PX)
      holdOk == IF firstDown THEN e.ptype \in HoldTypes
                ELSE IF e.ev \in {"down", "up", "cancel", "lock", "detach", "setconfig"} THEN FALSE
                ELSE IF strays /\ ~h.holdRan THEN FALSE
                ELSE h.holdOk
      scheduled == s.reconnectTimer = NoTimer /\ s2.reconnectTimer # NoTimer
      fault == e.ev = "fail"
  IN [ ev |-> e.ev,
       tapped |-> tapped,
       openTaps |-> IF answered THEN 0
                    ELSE IF tapped THEN Min(h.openTaps + 1, 2)
                    ELSE h.openTaps,
       multi |-> IF Size(s2.pointers) = 0 THEN FALSE
                 ELSE h.multi \/ Size(s2.pointers) >= 2,
       twoTap |-> twoTap,
       gestureDelta |-> gestureDelta,
       gestureMoveSent |-> IF firstDown THEN FALSE
                           ELSE \/ h.gestureMoveSent
                                \/ e.ev = "frame" /\ h.gestureDelta /\ "move" \in Kinds(s2.wire),
       holdOk |-> holdOk,
       holdRan |-> holdOk /\ (h.holdRan \/ e.ev = "hold"),
       heldUp |-> e.ev = "up" /\ h.holdOk /\ h.holdRan /\ e.id \in DOMAIN s.pointers,
       accCalls |-> IF e.ev = "frame" THEN 0
                    ELSE IF e.ev = "move" /\ s2.frames > 0 /\ ~s.locked
                            /\ e.id \in DOMAIN s.pointers
                    THEN h.accCalls + 1
                    ELSE h.accCalls,
       offlineDelta |-> IF e.ev = "frame" THEN FALSE
                        ELSE h.offlineDelta \/ (accumulates /\ ~Sendable(s)),
       dropped |-> /\ e.ev = "frame" /\ ~Sendable(s)
                   /\ (NonZero(s.moveAccum) \/ NonZero(s.scrollAccum)),
       lastDelay |-> IF e.ev = "open" THEN 0
                     ELSE IF scheduled THEN s.reconnectDelayMs
                     ELSE h.lastDelay,
       scheduled |-> scheduled,
       cycleStart |-> IF s2.status = "connected" THEN NoTimer
                      ELSE IF fault /\ h.cycleStart = NoTimer THEN t
                      ELSE h.cycleStart,
       cycleDisplay |-> IF s2.status = "connected" THEN "none"
                        ELSE IF fault /\ h.cycleStart = NoTimer THEN s.statusDisplay
                        ELSE h.cycleDisplay,
       fastCycle |-> IF /\ e.ev = "open" /\ h.cycleStart # NoTimer
                        /\ t - h.cycleStart < STATUS_DEBOUNCE_MS
                     THEN s.statusDisplay
                     ELSE "none",
       quiet |-> IF e.ev = "detach" THEN TRUE
                 ELSE IF e.ev \in {"down", "move", "up", "cancel"} THEN FALSE
                 ELSE h.quiet,
       reported |-> IF e.ev = "open" THEN FALSE
                    ELSE h.reported \/ "ws" \in Logged(s2),
       mult |-> IF e.ev = "speed" THEN e.id ELSE 0,
       again |-> e.ev = "down" /\ ~s.locked /\ e.id \in DOMAIN s.pointers,
       strayed |-> ((h.strayed \ (IF e.ev = "down" THEN {e.id} ELSE {}))
                      \cup (IF /\ strays /\ ~s.locked
                                /\ s.holdTimer # NoTimer /\ s.holdPointer = e.id
                             THEN {e.id} ELSE {}))
                   \cap DOMAIN s2.pointers,
       untracked |-> /\ e.ev \in {"move", "up", "cancel"} /\ ~s.locked
                     /\ e.id \notin DOMAIN s.pointers,
       pressed |-> IF "down" \in Kinds(s2.wire) THEN TRUE
                   ELSE IF "up" \in Kinds(s2.wire) THEN FALSE
                   ELSE h.pressed,
       ui |-> IF /\ \/ e.ev \in {"lock", "speed"}
                    \/ e.ev = "keyboard" /\ s.showKeyboardButton
                 /\ s.wsUrl # ""
              THEN [set |-> TRUE, url |-> s2.wsUrl, locked |-> s2.locked,
                    speedMultiplier |-> s2.speedMultiplier, keyboardOpen |-> s2.keyboardOpen]
              ELSE IF e.ev = "storewrite" /\ h.ui.set /\ s2.store[h.ui.url] # s.store[h.ui.url]
              THEN NoToggle
              ELSE h.ui ]

(* ---------------------------------------------------------------------- *)
(* Actions: one per handler or callback                                    *)
(* ---------------------------------------------------------------------- *)
Event(ev) == [ev |-> ev, id |-> NoPointer, p |-> Zero2, ptype |-> "none"]
PointerEvent(ev, id, p, ptype) == [ev |-> ev, id |-> id, p |-> p, ptype |-> ptype]

\* A handler run that takes the card to s2, on event e.
Run(s2, e) ==
  /\ s2.droppedOpen + s2.droppedConnecting <= MaxDropped
  /\ card' = s2
  /\ hist' = NextHist(hist, card, s2, e, now)
  /\ hist'.accCalls <= MaxMoves
  /\ now' = now

PointerDown(id, p, ptype) ==
  /\ id \notin DOMAIN fingers
  /\ fingers' = (id :> ptype) @@ fingers
  /\ Run(HandlePointerDown(Fresh(card), id, p, ptype, now), PointerEvent("down", id, p, ptype))

PointerMove(id, p) ==
  /\ id \in DOMAIN fingers
  /\ fingers' = fingers
  /\ Run(HandlePointerMove(Fresh(card), id, p, fingers[id], now),
         PointerEvent("move", id, p, fingers[id]))

PointerUp(id, p) ==
  /\ id \in DOMAIN fingers
  /\ fingers' = [i \in DOMAIN fingers \ {id} |-> fingers[i]]
  /\ Run(HandlePointerUp(Fresh(card), id, p, now), PointerEvent("up", id, p, fingers[id]))

\* pointerdown for an id the card still tracks: the contact's up never reached
\* the card, and the pointer id (the mouse's is always the same) is down again.
PointerDownAgain(id, p) ==
  /\ id \in DOMAIN fingers
  /\ id \in DOMAIN card.pointers
  /\ fingers' = fingers
  /\ Run(HandlePointerDown(Fresh(card), id, p, fingers[id], now),
         PointerEvent("down", id, p, fingers[id]))

\* pointercancel, pointerleave and pointerout all run handlePointerCancel.
PointerCancel(id) ==
  /\ id \in DOMAIN fingers
  /\ fingers' = [i \in DOMAIN fingers \ {id} |-> fingers[i]]
  /\ Run(HandlePointerCancel(Fresh(card), id), PointerEvent("cancel", id, Zero2, fingers[id]))

HoldTimer ==
  /\ card.holdTimer = now /\ card.holdPointer # NoPointer
  /\ Run(OnHoldTimer(Fresh(card)), Event("hold"))
  /\ UNCHANGED fingers

TapTimer ==
  /\ card.tapTimer = now
  /\ Run(OnTapTimer(Fresh(card)), Event("tap"))
  /\ UNCHANGED fingers

Frame ==
  /\ card.frames > 0
  /\ Run(OnFrame(Fresh(card)), Event("frame"))
  /\ UNCHANGED fingers

\* The timers that are still to run.
Due(s) ==
  ({s.reconnectTimer, s.statusTimer, s.detachTimer, s.tapTimer} \ {NoTimer})
    \cup (IF s.holdTimer # NoTimer /\ s.holdPointer # NoPointer THEN {s.holdTimer} ELSE {})

Earliest(S) == CHOOSE x \in S : \A y \in S : x <= y

\* Time passes: by `step', or up to the next due timer if that comes first.
Tick(step, horizon) ==
  /\ card.frames = 0
  /\ LET to == IF Due(card) = {} THEN now + step
               ELSE Min(now + step, Earliest(Due(card)))
     IN /\ to > now
        /\ to <= horizon
        /\ now' = to
  /\ card' = Fresh(card)
  /\ hist' = NextHist(hist, card, card', Event("tick"), now)
  /\ UNCHANGED fingers

\* The socket the card holds opens, is closed by the peer, or fails (the
\* browser then fires error and close in one task).
SocketOpen ==
  /\ card.socket = "CONNECTING"
  /\ Run(OnOpen([Fresh(card) EXCEPT !.socket = "OPEN"], now), Event("open"))
  /\ UNCHANGED fingers

SocketClose ==
  /\ card.socket = "OPEN"
  /\ Run(OnClose([Fresh(card) EXCEPT !.socket = "CLOSED"], now), Event("close"))
  /\ UNCHANGED fingers

SocketFail ==
  /\ card.socket \in {"CONNECTING", "OPEN"}
  /\ Run(OnClose(OnError([Fresh(card) EXCEPT !.socket = "CLOSED"], now), now), Event("fail"))
  /\ UNCHANGED fingers

\* The same events of a socket teardownSocket has dropped: its listeners are
\* still attached.
DroppedClose ==
  /\ card.droppedOpen > 0
  /\ Run(OnClose([Fresh(card) EXCEPT !.droppedOpen = @ - 1], now), Event("droppedclose"))
  /\ UNCHANGED fingers

DroppedFail ==
  /\ card.droppedConnecting > 0
  /\ Run(OnClose(OnError([Fresh(card) EXCEPT !.droppedConnecting = @ - 1], now), now),
         Event("droppedfail"))
  /\ UNCHANGED fingers

ReconnectTimer ==
  /\ card.reconnectTimer = now
  /\ Run(OnReconnectTimer(Fresh(card), now), Event("reconnect"))
  /\ UNCHANGED fingers

StatusTimer ==
  /\ card.statusTimer = now
  /\ Run(OnStatusTimer(Fresh(card)), Event("status"))
  /\ UNCHANGED fingers

DetachTimer ==
  /\ card.detachTimer = now
  /\ Run(OnDetachTimer(Fresh(card)), Event("detachtimer"))
  /\ UNCHANGED fingers

Configure(config) ==
  /\ Run(SetConfig(Fresh(card), config, now),
         Event(IF config.wsUrl = "" THEN "setconfigmissing" ELSE "setconfig"))
  /\ UNCHANGED fingers

Attach ==
  /\ ~card.attached
  /\ Run(ConnectedCallback(Fresh(card), now), Event("attach"))
  /\ UNCHANGED fingers

Detach ==
  /\ card.attached
  /\ Run(DisconnectedCallback(Fresh(card), now), Event("detach"))
  /\ UNCHANGED fingers

\* A key of the keyboard panel, a volume button, typed text.
PressKey ==
  /\ Run(SendKey(Fresh(card), "enter"), Event("key"))
  /\ UNCHANGED fingers

PressVolume ==
  /\ Run(SendVolume(Fresh(card), "up"), Event("volume"))
  /\ UNCHANGED fingers

TypeText(text) ==
  /\ Run(SendText(Fresh(card), text), Event("text"))
  /\ UNCHANGED fingers

\* The lock button, the keyboard button and the x2/x3/x4 buttons.
Lock ==
  /\ Run(ToggleLock(Fresh(card)), Event("lock"))
  /\ UNCHANGED fingers

KeyboardPanel ==
  /\ Run(ToggleKeyboardPanel(Fresh(card)), Event("keyboard"))
  /\ UNCHANGED fingers

Speed(mult) ==
  /\ Run(ToggleSpeed(Fresh(card), mult), [Event("speed") EXCEPT !.id = mult])
  /\ UNCHANGED fingers

\* Another tab, another version of the card or the user writes the entry
\* under the key of address u.
StoreWrite(u, entry) ==
  /\ card.store[u] # entry
  /\ Run([Fresh(card) EXCEPT !.store[u] = entry], Event("storewrite"))
  /\ UNCHANGED fingers

(* ---------------------------------------------------------------------- *)
(* The gesture classifier on a connected, unlocked card                    *)
(* ---------------------------------------------------------------------- *)
\* The card once setConfig has run on an attached card and its socket opened.
Configured(config, t) == SetConfig([InitCard EXCEPT !.attached = TRUE], config, t)
Opened(s, t) == OnOpen([s EXCEPT !.socket = "OPEN"], t)

PointerIds == {1, 2}
PointerTypes(id) == IF id = 1 THEN {"touch", "mouse"} ELSE {"touch"}
\* Distances from <<0, 0>>: 0, 3 (the hold radius), 5, 7 (past the tap radius).
Positions == {<<0, 0>>, <<3, 0>>, <<3, 4>>, <<7, 0>>}
DownPositions(id) == IF id = 1 THEN {<<0, 0>>} ELSE {<<7, 0>>}
DoubleTapWindows == {DoubleTapMsDefault, 400}
GestureSteps == {250}

InitGesture ==
  /\ now = 0
  /\ \E d \in DoubleTapWindows :
        card = Fresh(Opened(Configured(Config("ws://a", d, TapSuppressionPxDefault), 0), 0))
  /\ fingers = <<>>
  /\ hist = InitHist

\* The pointer positions an event may carry.  The first contact starts at
\* <<0, 0>>, the second at <<7, 0>>.
PositionsOf(id) == IF id = 1 THEN Positions ELSE {<<7, 0>>, <<0, 0>>}

\* A requested frame runs before the next input event or timer.
NoFrame == card.frames = 0

NextGesture ==
  \/ \E id \in PointerIds : \E p \in DownPositions(id), ptype \in PointerTypes(id) :
        NoFrame /\ PointerDown(id, p, ptype)
  \/ \E id \in PointerIds : \E p \in PositionsOf(id) : NoFrame /\ PointerMove(id, p)
  \/ \E id \in PointerIds : \E p \in PositionsOf(id) : NoFrame /\ PointerUp(id, p)
  \/ \E id \in PointerIds : NoFrame /\ PointerCancel(id)
  \/ NoFrame /\ HoldTimer
  \/ NoFrame /\ TapTimer
  \/ Frame
  \/ \E step \in GestureSteps : Tick(step, MaxTime)

SpecGesture == InitGesture /\ [][NextGesture]_vars

(* ---------------------------------------------------------------------- *)
(* Properties of the gesture classifier                                    *)
(* ---------------------------------------------------------------------- *)
Sent(w) == Kinds(w.wire)

\* Fingers still down whose contact the card no longer tracks: on an unlocked
\* card, the second finger of a two-finger tap.
Orphans == DOMAIN fingers \ DOMAIN card.pointers

OrphanLifted == \E i \in Orphans : DOMAIN fingers' = DOMAIN fingers \ {i}

\* C1: on a connected, unlocked card every qualifying single-contact tap gets
\* exactly one answer: a click when its tap timer runs doubleTapMs after the
\* release, or, if a second qualifying tap is released before that, one
\* double_click for the two and no click; no tap is left unanswered or
\* answered twice.
C1_EveryTapAnsweredOnce ==
  /\ [](hist.openTaps <= 1)
  /\ [](hist.openTaps = 1 => card.tapTimer = card.lastTapTime + card.doubleTapMs
                             /\ card.tapTimer >= now)
  /\ [][ /\ "double_click" \in Sent(card') => hist'.tapped /\ hist.openTaps = 1
         /\ "click" \in Sent(card') => hist'.ev = "tap" /\ hist.openTaps = 1
         /\ hist'.tapped /\ hist.openTaps = 0 =>
               card'.wire = <<>> /\ card'.tapTimer = now + card.doubleTapMs
         /\ hist'.tapped /\ hist.openTaps = 1 =>
               card'.wire = <<Msg("double_click")>> /\ card'.tapTimer = NoTimer
         /\ hist'.ev = "tap" => card'.wire = <<Msg("click")>> ]_vars

\* C2 as stated: lifting one finger of a two-finger tap sends exactly one
\* right_click and clears all contacts and the gesture mode, and no click,
\* double_click or move is sent for that gesture, neither before the
\* right_click nor when the second finger is lifted later.
C2_TwoFingerTapAndNoMove ==
  [][ /\ hist'.twoTap =>
           /\ card'.wire = <<Msg("right_click")>>
           /\ Size(card'.pointers) = 0
           /\ card'.gesture = "none"
           /\ card'.tapTimer = card.tapTimer
           /\ card'.lastTapTime = card.lastTapTime
           /\ ~hist.gestureMoveSent
      /\ OrphanLifted =>
           /\ card'.wire = <<>>
           /\ card'.tapTimer = card.tapTimer
           /\ card'.lastTapTime = card.lastTapTime ]_vars

\* C2 amended: lifting one finger of a two-finger tap sends exactly one
\* right_click and clears all contacts and the gesture mode; neither that lift
\* nor the later lift of the second finger sends a click or double_click or
\* arms the tap timer.  (A move may have been sent for the first contact's
\* motion while it was alone.)
C2_TwoFingerTapRightClick ==
  [][ /\ hist'.twoTap =>
           /\ card'.wire = <<Msg("right_click")>>
           /\ Size(card'.pointers) = 0
           /\ card'.gesture = "none"
           /\ card'.tapTimer = card.tapTimer
           /\ card'.lastTapTime = card.lastTapTime
      /\ OrphanLifted =>
           /\ card'.wire = <<>>
           /\ card'.tapTimer = card.tapTimer
           /\ card'.lastTapTime = card.lastTapTime ]_vars

\* A two-finger tap has just sent its right_click, after a move of the same
\* gesture was sent.
C2_Witness ==
  hist.twoTap /\ card.wire = <<Msg("right_click")>> /\ hist.gestureMoveSent /\ Orphans # {}

\* The contact hist.holdOk speaks of.
SoleContact == card.pointers[CHOOSE i \in DOMAIN card.pointers : TRUE]
SoleId == CHOOSE i \in DOMAIN card.pointers : TRUE

ConnMaxTime == 2100
ConnSteps == {300}
ConnConfig == Config("ws://a", DoubleTapMsDefault, TapSuppressionPxDefault)

\* The card has been configured and attached; its first socket is connecting.
InitConn ==
  /\ now = 0
  /\ card = Fresh(Configured(ConnConfig, 0))
  /\ fingers = <<>>
  /\ hist = InitHist

Link ==
  \/ SocketOpen
  \/ SocketClose
  \/ SocketFail
  \/ ReconnectTimer
  \/ StatusTimer

NextConn ==
  \/ Link
  \/ Configure(ConnConfig)
  \/ DroppedClose
  \/ DroppedFail
  \/ PressKey
  \/ \E step \in ConnSteps : Tick(step, ConnMaxTime)

SpecConn == InitConn /\ [][NextConn]_vars

\* One socket after another over a horizon long enough for the reconnect
\* delay to reach its cap: time advances to the next timer, or by a whole cap.
BackoffMaxTime == 50000
BackoffSteps == {RECONNECT_MAX_MS}

NextBackoff ==
  \/ Link
  \/ \E step \in BackoffSteps : Tick(step, BackoffMaxTime)

SpecBackoff == InitConn /\ [][NextBackoff]_vars

(* ---------------------------------------------------------------------- *)
(* Properties of the channel                                               *)
(* ---------------------------------------------------------------------- *)
\* The delay that follows delay d: round(d * 1.8), at most 15000.
DelayAfter(d) ==
  CASE d = 1500 -> 2700
    [] d = 2700 -> 4860
    [] d = 4860 -> 8748
    [] OTHER -> 15000

\* The delay of the reconnect the step schedules.
DelayUsed == card'.reconnectTimer - now

\* C5: the reconnect delay starts at 1500 ms; a reconnect is scheduled with the
\* current delay, which then becomes min(round(delay * 1.8), 15000): with no
\* open in between the delays used run 1500, 2700, 4860, 8748, 15000, 15000,
\* ..., never decreasing and never above 15000; an open puts the delay back to
\* 1500, which the next reconnect uses.
C5_Backoff ==
  /\ card.reconnectDelayMs = RECONNECT_BASE_MS
  /\ [][ /\ hist'.scheduled =>
              /\ DelayUsed = card.reconnectDelayMs
              /\ DelayUsed = (IF hist.lastDelay = 0 THEN 1500 ELSE DelayAfter(hist.lastDelay))
              /\ DelayUsed >= hist.lastDelay
              /\ DelayUsed <= 15000
              /\ card'.reconnectDelayMs = DelayAfter(DelayUsed)
         /\ hist'.ev = "open" => card'.reconnectDelayMs = 1500 /\ hist'.lastDelay = 0
         /\ ~hist'.scheduled /\ hist'.ev # "open" =>
              card'.reconnectDelayMs = card.reconnectDelayMs ]_vars

\* A reconnect has just been scheduled at the ceiling for the second time
\* running.
C5_Witness ==
  /\ hist.scheduled
  /\ hist.lastDelay = RECONNECT_MAX_MS
  /\ card.reconnectTimer = now + RECONNECT_MAX_MS
  /\ now >= 1500 + 2700 + 4860 + 8748 + 15000

C9_SendOnlyWhenConnected ==
  [][ card'.wire # <<>> => card.status = "connected" /\ card'.status = "connected" ]_vars

(* ---------------------------------------------------------------------- *)
(* Pointer motion, the frame flush and the socket going up and down        *)
(* ---------------------------------------------------------------------- *)
FlushMaxTime == 1500
FlushSteps == {RECONNECT_BASE_MS}
FlushDownPositions(id) == IF id = 1 THEN {<<0, 0>>} ELSE {<<7, 0>>}
FlushPositions(id) == IF id = 1 THEN {<<0, 0>>, <<10, -4>>} ELSE {<<7, 2>>}

\* Contacts land, move and leave the pad (pointerleave); frames run whenever
\* the browser gets to them, before or after the next pointer or socket event.
NextFlush ==
  \/ \E id \in PointerIds : \E p \in FlushDownPositions(id) : PointerDown(id, p, "touch")
  \/ \E id \in PointerIds : \E p \in FlushPositions(id) : PointerMove(id, p)
  \/ \E id \in PointerIds : PointerCancel(id)
  \/ HoldTimer
  \/ Frame
  \/ Link
  \/ \E step \in FlushSteps : Tick(step, FlushMaxTime)

SpecFlush == InitConn /\ [][NextFlush]_vars

(* ---------------------------------------------------------------------- *)
(* Properties of the accumulators and the frame flush                      *)
(* ---------------------------------------------------------------------- *)
\* What a flush of accumulators mv and sc puts on the wire.
Flushed(mv, sc) ==
  (IF mv # Zero2 THEN <<MsgDelta("move", mv)>> ELSE <<>>)
    \o (IF sc # Zero2 THEN <<MsgDelta("scroll", sc)>> ELSE <<>>)

\* C4: a frame flush that finds the socket sendable sends one move carrying
\* the whole move accumulator if it is not (0,0), then one scroll carrying the
\* whole scroll accumulator if it is not (0,0), nothing else, and leaves both
\* accumulators at (0,0).
C4_FlushSendsMoveThenScroll ==
  [][ hist'.ev = "frame" /\ Sendable(card) =>
        /\ card'.wire = Flushed(card.moveAccum, card.scrollAccum)
        /\ card'.moveAccum = Zero2
        /\ card'.scrollAccum = Zero2 ]_vars

\* A flush has just sent the move (10,-4) and no scroll (deltas are held in
\* 1/CentroidScale px).
C4_ExampleReached ==
  /\ hist.ev = "frame"
  /\ card.wire = <<MsgDelta("move", <<10 * CentroidScale, (0 - 4) * CentroidScale>>)>>
  /\ card.moveAccum = Zero2 /\ card.scrollAccum = Zero2

\* A flush has just sent a move and then a scroll.
C4_Witness ==
  /\ hist.ev = "frame"
  /\ Len(card.wire) = 2 /\ card.wire[1].t = "move" /\ card.wire[2].t = "scroll"

\* C7: no flush transmits while an accumulator holds a delta made by pointer
\* motion that occurred while the socket was not open.
C7_OfflineMotionNeverSent ==
  [][ hist'.ev = "frame" /\ hist.offlineDelta => card'.wire = <<>> ]_vars

\* C8: a frame flush that finds the socket not sendable sends nothing, leaves
\* both accumulators at (0,0) and no frame requested: nothing is left of the
\* dropped deltas to send later.
C8_UnsendableFlushDrops ==
  [][ hist'.ev = "frame" /\ ~Sendable(card) =>
        /\ card'.wire = <<>>
        /\ card'.moveAccum = Zero2
        /\ card'.scrollAccum = Zero2
        /\ ~card'.rafHandle
        /\ card'.frames = card.frames - 1 ]_vars

\* A flush has just dropped a delta.
C8_Witness == hist.dropped /\ card.wire = <<>> /\ card.frames = 0

\* C10: at most one frame callback is pending, and it is pending exactly when
\* rafHandle is set; an accumulation with none pending requests one, an
\* accumulation with one pending requests none; each callback flushes once.
C10_OneFlushPending ==
  /\ [](card.frames <= 1 /\ (card.rafHandle <=> card.frames = 1))
  /\ [][ /\ hist'.ev = "move" /\ hist'.accCalls > hist.accCalls => card'.frames = 1
         /\ hist'.ev = "frame" => card.frames = 1 /\ card'.frames = 0 ]_vars

\* A second accumulation has been made with the frame of the first pending.
C10_Witness == hist.accCalls >= 2 /\ card.frames = 1 /\ hist.ev = "move"

(* ---------------------------------------------------------------------- *)
(* The host lifecycle: detach, re-attach and the deferred teardown         *)
(* ---------------------------------------------------------------------- *)
LifeMaxTime == 4000
LifeSteps == {1000}
NextLife ==
  \/ Attach
  \/ Detach
  \/ DetachTimer
  \/ Link
  \/ DroppedClose
  \/ DroppedFail
  \/ \E step \in LifeSteps : Tick(step, LifeMaxTime)

SpecLife == InitConn /\ [][NextLife]_vars

\* The channel of card s: its socket and what the socket's events act on.
ChannelOf(s) ==
  <<s.socket, s.status, s.connected, s.reconnectTimer, s.reconnectDelayMs,
    s.wsErrorNotified, s.droppedOpen, s.droppedConnecting>>

\* C11: a detach leaves the channel as it is, and so does a re-attach that
\* comes before the 2 s teardown delay has elapsed and finds the socket open or
\* connecting: no socket is closed or replaced, no connection attempt is made,
\* the connection status is unchanged, and the pending teardown is cancelled.
C11_ReattachKeepsChannel ==
  [][ /\ hist'.ev = "detach" =>
           /\ ChannelOf(card') = ChannelOf(card)
           /\ card'.detachTimer = now + DETACH_DELAY_MS
      /\ hist'.ev = "attach" /\ card.detachTimer # NoTimer
            /\ card.socket \in {"OPEN", "CONNECTING"} =>
           /\ ChannelOf(card') = ChannelOf(card)
           /\ card'.detachTimer = NoTimer ]_vars

\* The card has just been re-attached, 1 s after it was detached with its
\* socket open.
C11_Witness ==
  /\ hist.ev = "attach"
  /\ card.socket = "OPEN" /\ card.status = "connected"
  /\ card.detachTimer = NoTimer
  /\ now > 0 /\ now < DETACH_DELAY_MS

(* ---------------------------------------------------------------------- *)
(* Gestures under way when the card is detached                            *)
(* ---------------------------------------------------------------------- *)
DetachMaxTime == 2500
DetachSteps == {500}
DetachPositions == {<<0, 0>>, <<7, 0>>}

\* A detached element is delivered no pointer events; its timers and frames
\* run attached or not.  A requested frame runs before the next event.
NextDetach ==
  \/ NoFrame /\ card.attached /\ PointerDown(1, <<0, 0>>, "touch")
  \/ \E p \in DetachPositions : NoFrame /\ card.attached /\ PointerMove(1, p)
  \/ \E p \in DetachPositions : NoFrame /\ card.attached /\ PointerUp(1, p)
  \/ NoFrame /\ HoldTimer
  \/ NoFrame /\ TapTimer
  \/ Frame
  \/ NoFrame /\ Attach
  \/ NoFrame /\ Detach
  \/ NoFrame /\ DetachTimer
  \/ \E step \in DetachSteps : Tick(step, DetachMaxTime)

InitDetach ==
  /\ now = 0
  /\ card = Fresh(Opened(Configured(ConnConfig, 0), 0))
  /\ fingers = <<>>
  /\ hist = InitHist

SpecDetach == InitDetach /\ [][NextDetach]_vars

\* C12: a detach cancels the pending tap and hold timers and sends at most
\* the one up that ends an engaged drag; from then until a pointer event
\* arrives after the re-attach, neither timer is pending and no click,
\* double_click or down is sent.
C12_DetachSilencesGesture ==
  /\ [](hist.quiet => card.tapTimer = NoTimer /\ card.holdTimer = NoTimer)
  /\ [][ /\ hist'.quiet => Sent(card') \cap {"click", "double_click", "down"} = {}
         /\ hist'.ev = "detach" =>
              card'.wire = (IF card.dragPointerId # NoPointer /\ Sendable(card)
                            THEN <<Msg("up")>> ELSE <<>>)
         /\ hist'.ev \in {"tap", "hold"} => card.attached ]_vars

\* The card was detached with a tap awaiting its click, and the time the
\* click was due has passed.
C12_Witness ==
  /\ hist.quiet /\ ~card.attached
  /\ card.lastTapTime > 0
  /\ now > card.lastTapTime + card.doubleTapMs

\* C13: a detach cancels a pending reconnect timer; while the card is
\* detached no reconnect timer runs and no connection attempt is started; and
\* once the deferred teardown has run, the card has no socket and no reconnect
\* timer for as long as it stays detached.
C13_DetachedStaysDown ==
  /\ [](~card.attached /\ card.detachTimer = NoTimer =>
           card.socket = "none" /\ card.reconnectTimer = NoTimer)
  /\ [][ /\ hist'.ev = "detach" => card'.reconnectTimer = NoTimer
         /\ hist'.ev = "reconnect" => card.attached
         /\ ~card.attached /\ ~card'.attached =>
              /\ card'.socket = "CONNECTING" => card.socket = "CONNECTING"
              /\ card'.droppedOpen <= card.droppedOpen \/ hist'.ev = "detachtimer"
              /\ card'.droppedConnecting <= card.droppedConnecting
                    \/ hist'.ev = "detachtimer" ]_vars

(* ---------------------------------------------------------------------- *)
(* Transport faults, an address the WebSocket constructor rejects included *)
(* ---------------------------------------------------------------------- *)
FaultMaxTime == 1800
FaultSteps == {600}
FaultUrls == {"ws://a", "bad"}

NextFault ==
  \/ Link
  \/ \E u \in FaultUrls : Configure(Config(u, DoubleTapMsDefault, TapSuppressionPxDefault))
  \/ DroppedClose
  \/ DroppedFail
  \/ \E step \in FaultSteps : Tick(step, FaultMaxTime)

SpecFault == InitConn /\ [][NextFault]_vars

\* C14: while a target address is configured and the card is attached, the
\* card never rests in `error' or `connecting' without either a socket that
\* is connecting or a reconnect timer pending: every transport fault is
\* followed by a new connection attempt.
C14_FaultIsRetried ==
  card.attached /\ card.wsUrl # "" /\ card.status \in {"error", "connecting"} =>
     card.socket = "CONNECTING" \/ card.reconnectTimer # NoTimer

\* C15: in an unbroken streak of transport errors (no open in between) only
\* the first socket error is logged: a step that logs one follows no logged
\* socket error since the last open.
C15_OneReportPerStreak ==
  [][ "ws" \in Logged(card') => ~hist.reported ]_vars

(* ---------------------------------------------------------------------- *)
(* The locked surface: page panning with one or two touch contacts         *)
(* ---------------------------------------------------------------------- *)
LockedPositions == {<<0, 0>>, <<0, 4>>, <<0, 9>>}

\* A connected card whose lock button has been pressed.
InitLocked ==
  /\ now = 0
  /\ card = Fresh(ToggleLock(Opened(Configured(ConnConfig, 0), 0)))
  /\ fingers = <<>>
  /\ hist = InitHist

NextLocked ==
  \/ \E id \in PointerIds : \E p \in LockedPositions, ptype \in PointerTypes(id) :
        NoFrame /\ PointerDown(id, p, ptype)
  \/ \E id \in PointerIds : \E p \in LockedPositions : NoFrame /\ PointerMove(id, p)
  \/ \E id \in PointerIds : \E p \in LockedPositions : NoFrame /\ PointerUp(id, p)
  \/ \E id \in PointerIds : NoFrame /\ PointerCancel(id)
  \/ NoFrame /\ Lock
  \/ Frame

SpecLocked == InitLocked /\ [][NextLocked]_vars

\* The contacts the last step put down.
NewContacts == DOMAIN fingers' \ DOMAIN fingers

\* C16: on a locked surface a touch that goes down while a locked-pan contact
\* is tracked is ignored: the tracked contact id and its last vertical
\* coordinate stay as they were, so the first contact's moves keep scrolling.
C16_SecondTouchIgnored ==
  [][ /\ hist'.ev = "down" /\ card.locked /\ card.lockedPanId # NoPointer
      /\ \E id \in NewContacts : fingers'[id] \in PanTypes
      => /\ card'.lockedPanId = card.lockedPanId
         /\ card'.lockedPanLastY = card.lockedPanLastY ]_vars

(* ---------------------------------------------------------------------- *)
(* Configuration, the toggles and the persisted UI state                   *)
(* ---------------------------------------------------------------------- *)
\* "" is a configuration without wsUrl.
UiUrls == {"", "ws://a", "ws://b"}
SpeedButtons == {2, 3, 4}

UiConfig(u, kb) ==
  [Config(u, DoubleTapMsDefault, TapSuppressionPxDefault) EXCEPT !.showKeyboardButton = kb]

\* Entries the card did not write: unparseable text, the empty string, null,
\* and objects with fields missing, wrongly typed or out of range.
ForeignEntries ==
  { StoreOther("corrupt"), StoreOther("empty"), StoreOther("null"),
    StoreEntry("json", JNum(1), JNum(5), JStr),
    StoreEntry("json", JUndefined, JStr, JUndefined),
    StoreEntry("json", JBool(TRUE), JNum(0), JBool(TRUE)),
    StoreEntry("json", JStr, JNum(3), JUndefined) }

\* The card has been configured; localStorage is usable or not.
InitUi ==
  /\ now = 0
  /\ \E ok \in BOOLEAN : card = [Fresh(Configured(ConnConfig, 0)) EXCEPT !.storageOk = ok]
  /\ fingers = <<>>
  /\ hist = InitHist

\* The socket is open and the events of the sockets dropped before it have
\* arrived: the channel is at rest when the next button or configuration comes.
Settled == card.socket = "OPEN" /\ card.droppedOpen = 0 /\ card.droppedConnecting = 0

NextUi ==
  \/ \E u \in UiUrls, kb \in BOOLEAN : Settled /\ Configure(UiConfig(u, kb))
  \/ Settled /\ Lock
  \/ Settled /\ KeyboardPanel
  \/ \E mult \in SpeedButtons : Settled /\ Speed(mult)
  \/ \E entry \in ForeignEntries : Settled /\ card.storageOk /\ StoreWrite("ws://a", entry)
  \/ SocketOpen
  \/ DroppedClose

SpecUi == InitUi /\ [][NextUi]_vars

\* C17: setConfig with a missing or empty wsUrl throws and changes nothing:
\* configuration, options, toggles, socket, timers and status are as before.
C17_MissingUrlChangesNothing ==
  [][ hist'.ev = "setconfigmissing" =>
        /\ card' = [Fresh(card) EXCEPT !.thrown = TRUE]
        /\ fingers' = fingers ]_vars

C17_Witness ==
  /\ hist.ev = "setconfigmissing" /\ card.thrown
  /\ card.wsUrl = "ws://b" /\ card.locked /\ card.speedMultiplier = 3 /\ card.socket = "OPEN"

\* C18: a configuration never throws because of the stored entry, and every
\* field that the entry lacks or holds with a wrong type or out of range (all
\* three when the entry is absent, empty, unparseable or null) is at its
\* default afterwards: locked FALSE, speedMultiplier 1, keyboardOpen FALSE.
C18_BadEntryYieldsDefaults ==
  [][ hist'.ev = "setconfig" =>
        LET raw == card.store[card'.wsUrl] IN
        /\ ~card'.thrown
        /\ (raw.kind # "json" \/ raw.locked.type # "boolean") => ~card'.locked
        /\ (raw.kind # "json" \/ raw.speedMultiplier.type # "number"
              \/ raw.speedMultiplier.n \notin 1..4) => card'.speedMultiplier = 1
        /\ (raw.kind # "json" \/ raw.keyboardOpen.type # "boolean") => ~card'.keyboardOpen ]_vars

C18_Witness ==
  /\ hist.ev = "setconfig" /\ card.storageOk
  /\ card.store[card.wsUrl].kind = "null" /\ "restore" \in Logged(card)
  /\ ~card.locked /\ card.speedMultiplier = 1 /\ ~card.keyboardOpen

\* C19: with storage usable and the keyboard button shown, configuring the
\* card with the address of the last toggle restores locked, speedMultiplier
\* and keyboardOpen to the values that toggle left.
C19_TogglesRoundTrip ==
  [][ /\ hist'.ev = "setconfig" /\ hist.ui.set /\ card'.wsUrl = hist.ui.url
      /\ card.storageOk /\ card'.showKeyboardButton
      => /\ card'.locked = hist.ui.locked
         /\ card'.speedMultiplier = hist.ui.speedMultiplier
         /\ card'.keyboardOpen = hist.ui.keyboardOpen ]_vars

C19_Witness ==
  /\ hist.ev = "setconfig" /\ hist.ui.set /\ card.wsUrl = hist.ui.url
  /\ card.storageOk /\ card.showKeyboardButton
  /\ card.locked /\ card.speedMultiplier = 4 /\ card.keyboardOpen

\* C20: the speed multiplier is always 1, 2, 3 or 4; pressing the button of m
\* while m is the multiplier returns it to 1, otherwise makes it m.
C20_SpeedToggle ==
  /\ [](card.speedMultiplier \in {1, 2, 3, 4})
  /\ [][ hist'.ev = "speed" =>
           card'.speedMultiplier = (IF card.speedMultiplier = hist'.mult THEN 1 ELSE hist'.mult) ]_vars

C20_Witness ==
  hist.ev = "speed" /\ hist.mult = 3 /\ card.speedMultiplier = 1

\* C21: a pointer-down that brings the contacts of an unlocked surface to two
\* or more cancels the hold timer, ends an engaged drag with exactly one up
\* and sets the gesture mode to scroll; no down is sent while two or more
\* contacts are active.
C21_SecondContactScrolls ==
  [][ /\ hist'.ev = "down" /\ ~card.locked /\ Size(card'.pointers) >= 2 =>
           /\ card'.holdTimer = NoTimer
           /\ card'.dragPointerId = NoPointer
           /\ card'.gesture = "scroll"
           /\ card'.wire = (IF card.dragPointerId # NoPointer /\ Sendable(card)
                            THEN <<Msg("up")>> ELSE <<>>)
      /\ "down" \in Sent(card') => Size(card.pointers) <= 1 /\ Size(card'.pointers) <= 1 ]_vars

\* A second contact has just landed on an engaged drag.
C21_Witness ==
  /\ hist.ev = "down" /\ Size(card.pointers) = 2 /\ card.gesture = "scroll"
  /\ card.wire = <<Msg("up")>> /\ card.dragPointerId = NoPointer

\* C22: once a gesture has had two or more contacts at a time, no removal of
\* one of its contacts is taken for a tap: the step sends no click or
\* double_click and leaves the tap timer and the last-tap time as they were.
C22_ScrollLiftIsNoTap ==
  [][ hist.multi /\ hist'.ev \in {"up", "cancel"} =>
        /\ Sent(card') \cap {"click", "double_click"} = {}
        /\ card'.tapTimer = card.tapTimer
        /\ card'.lastTapTime = card.lastTapTime ]_vars

\* C23: on an unlocked surface a move, up or cancel for an id that is no
\* tracked contact is a no-op: nothing is sent, and the contacts, the gesture
\* mode, the drag contact, the hold and tap timers, the last-tap time and both
\* accumulators stay as they were.
C23_UntrackedIsNoOp ==
  [][ hist'.untracked =>
        /\ card'.wire = <<>>
        /\ card'.pointers = card.pointers
        /\ card'.gesture = card.gesture
        /\ card'.dragPointerId = card.dragPointerId
        /\ card'.holdTimer = card.holdTimer
        /\ card'.holdPointer = card.holdPointer
        /\ card'.tapTimer = card.tapTimer
        /\ card'.lastTapTime = card.lastTapTime
        /\ card'.moveAccum = card.moveAccum
        /\ card'.scrollAccum = card.scrollAccum ]_vars

(* ---------------------------------------------------------------------- *)
(* Pointer-down events for contacts the card already tracks                *)
(* ---------------------------------------------------------------------- *)
RepeatMaxTime == 750
RepeatSteps == {250}
RepeatPositions == {<<0, 0>>, <<7, 0>>}

NextRepeat ==
  \/ \E id \in PointerIds : \E ptype \in PointerTypes(id) :
        NoFrame /\ PointerDown(id, <<0, 0>>, ptype)
  \/ \E id \in PointerIds : \E p \in RepeatPositions : NoFrame /\ PointerDownAgain(id, p)
  \/ \E id \in PointerIds : \E p \in RepeatPositions : NoFrame /\ PointerMove(id, p)
  \/ \E id \in PointerIds : \E p \in RepeatPositions : NoFrame /\ PointerUp(id, p)
  \/ NoFrame /\ HoldTimer
  \/ NoFrame /\ TapTimer
  \/ Frame
  \/ \E step \in RepeatSteps : Tick(step, RepeatMaxTime)

SpecRepeat == InitDetach /\ [][NextRepeat]_vars

\* C24: on an unlocked surface a pointer-down for an id that is already a
\* tracked contact is a no-op: no contact's start position or start time
\* changes, the hold timer is not re-armed, the gesture mode stays.
C24_RepeatedDownIsNoOp ==
  [][ hist'.again =>
        /\ DOMAIN card'.pointers = DOMAIN card.pointers
        /\ \A i \in DOMAIN card.pointers :
              /\ card'.pointers[i].startX = card.pointers[i].startX
              /\ card'.pointers[i].startY = card.pointers[i].startY
              /\ card'.pointers[i].startTime = card.pointers[i].startTime
        /\ card'.holdTimer = card.holdTimer
        /\ card'.holdPointer = card.holdPointer
        /\ card'.gesture = card.gesture ]_vars

(* ---------------------------------------------------------------------- *)
(* Reconfiguration while a gesture is under way                            *)
(* ---------------------------------------------------------------------- *)
ReconfigMaxTime == 580
ReconfigSteps == {HOLD_DELAY_MS}
ReconfigUrls == {"ws://a", "ws://b"}

NextReconfig ==
  \/ Settled /\ PointerDown(1, <<0, 0>>, "touch")
  \/ \E p \in DetachPositions : Settled /\ PointerUp(1, p)
  \/ Settled /\ HoldTimer
  \/ Settled /\ TapTimer
  \/ Settled /\ Lock
  \/ \E u \in ReconfigUrls : Settled /\ Configure(UiConfig(u, TRUE))
  \/ SocketOpen
  \/ DroppedClose
  \/ \E step \in ReconfigSteps : Tick(step, ReconfigMaxTime)

SpecReconfig == InitDetach /\ [][NextReconfig]_vars

\* C25: setConfig on a configured card resets the gesture context: no tracked
\* contact, gesture mode none, no drag contact, no locked-pan contact, the
\* last-tap time cleared, no hold or tap timer pending.
C25_ReconfigureResetsGesture ==
  [][ hist'.ev = "setconfig" =>
        /\ card'.pointers = NoPointers
        /\ card'.gesture = "none"
        /\ card'.dragPointerId = NoPointer
        /\ card'.lockedPanId = NoPointer
        /\ card'.lastTapTime = 0
        /\ card'.holdTimer = NoTimer
        /\ card'.tapTimer = NoTimer ]_vars

\* The card without its locked-pan fields and without the page scroll a
\* handler asked for.
ApartFromPan(s) == [s EXCEPT !.lockedPanId = NoPointer, !.lockedPanLastY = 0, !.scrolled = <<>>]

\* C26: on a locked surface pointer down, move, up and cancel do not reach the
\* classifier: nothing is sent and nothing but the locked-pan contact changes
\* (contacts, gesture mode, drag contact, hold timer and accumulators stay);
\* only a move scrolls the page, by one vertical delta.
C26_LockedBypassesClassifier ==
  [][ card.locked /\ hist'.ev \in {"down", "move", "up", "cancel"} =>
        /\ card'.wire = <<>>
        /\ ApartFromPan(card') = ApartFromPan(Fresh(card))
        /\ hist'.ev # "move" => card'.scrolled = <<>>
        /\ hist'.ev = "move" =>
              /\ card'.lockedPanId = card.lockedPanId
              /\ card'.scrolled \in {<<>>, <<card.lockedPanLastY - card'.lockedPanLastY>>} ]_vars

\* A locked move has scrolled the page while the card still holds a contact
\* from before the lock.
C26_Witness ==
  /\ hist.ev = "move" /\ card.locked /\ Len(card.scrolled) = 1
  /\ Size(card.pointers) = 1 /\ card.gesture = "move"

\* C27: the display status is the debounced internal status.  It is
\* `connected' whenever the internal status is; it changes to another value
\* only while that is the internal status; and while it lags behind an
\* internal status other than `connected', the timer that will bring it there
\* within 600 ms is pending, across detach and re-attach too.
C27_DisplayFollowsStatus ==
  /\ [](card.status = "connected" => card.statusDisplay = "connected")
  /\ [](card.status # "connected" /\ card.statusDisplay # card.status =>
          /\ card.statusTimer # NoTimer
          /\ card.statusNext = card.status
          /\ card.statusTimer >= now
          /\ card.statusTimer <= now + STATUS_DEBOUNCE_MS)
  /\ [][ card'.statusDisplay # card.statusDisplay =>
           card'.statusDisplay = card'.status ]_vars

\* C28: a contact that moves more than 3 px from its start before its hold
\* timer fires loses the timer there and then, and no down is sent for it as
\* long as it is tracked, even if it returns to its start and stays.
C28_StrayedNeverDrags ==
  /\ [](\A i \in hist.strayed : card.dragPointerId = i \/ card.holdPointer # i)
  /\ [][ "down" \in Sent(card') => card'.dragPointerId \notin hist.strayed ]_vars

\* A contact strayed, came back to its start and has stayed well past the
\* hold delay without a drag.
C28_Witness ==
  /\ hist.strayed = {1} /\ DOMAIN card.pointers = {1}
  /\ NearStart(card.pointers[1], <<card.pointers[1].x, card.pointers[1].y>>, HOLD_CANCEL_PX)
  /\ now > card.pointers[1].startTime + HOLD_DELAY_MS
  /\ card.dragPointerId = NoPointer /\ fingers[1] = "touch"

\* The contacts the last step took off the surface.
Lifted == DOMAIN fingers \ DOMAIN fingers'

\* C29: when the contact of an engaged drag is lifted or cancelled, or the
\* surface is locked, or the card detaches, the step hands exactly one up to
\* the socket (sent if it is open) and clears the drag; an up is sent by no
\* other step, so no drag gets a second one.
C29_DragEndsOnce ==
  [][ /\ /\ card.dragPointerId # NoPointer
         /\ \/ hist'.ev \in {"up", "cancel"} /\ card.dragPointerId \in Lifted
            \/ hist'.ev = "lock" /\ card'.locked
            \/ hist'.ev = "detach"
         => /\ card'.wire = (IF Sendable(card) THEN <<Msg("up")>> ELSE <<>>)
            /\ card'.dragPointerId = NoPointer
      /\ "up" \in Sent(card') =>
            /\ card.dragPointerId # NoPointer
            /\ card'.dragPointerId = NoPointer
            /\ card'.wire = <<Msg("up")>> ]_vars

\* C30: outside locked mode the gesture mode matches the number of tracked
\* contacts in every reachable state: none exactly with zero contacts, move
\* exactly with one, scroll exactly with two or more.
C30_GestureMatchesContacts ==
  ~card.locked =>
     /\ card.gesture = "none" <=> Size(card.pointers) = 0
     /\ card.gesture = "move" <=> Size(card.pointers) = 1
     /\ card.gesture = "scroll" <=> Size(card.pointers) >= 2

\* C31: whenever a drag is engaged exactly one contact is tracked, it is the
\* drag contact, the gesture mode is move and the surface is not locked; a
\* down is sent only by a step that engages the drag from the released state
\* and an up only by a step that releases an engaged drag, so the two
\* alternate starting with down.
C31_DragShape ==
  /\ [](card.dragPointerId # NoPointer =>
          /\ DOMAIN card.pointers = {card.dragPointerId}
          /\ card.gesture = "move"
          /\ ~card.locked)
  /\ [][ /\ "down" \in Sent(card') =>
               card.dragPointerId = NoPointer /\ card'.dragPointerId # NoPointer
         /\ "up" \in Sent(card') =>
               card.dragPointerId # NoPointer /\ card'.dragPointerId = NoPointer ]_vars

\* C32: in the stream of sent messages down and up form a bracket: a down is
\* sent only when the last of the two sent was an up (or none was sent yet),
\* and an up only when the last sent was a down.
C32_ButtonBracket ==
  [][ /\ "down" \in Sent(card') => ~hist.pressed
      /\ "up" \in Sent(card') => hist.pressed ]_vars

\* The discrete button messages whose place among the deltas matters.
Discrete == {"down", "up", "right_click"}

\* C33: a delta accumulated from motion that came before a discrete message
\* is sent before it: the step right after one that sent a down, an up or a
\* right_click (a frame, when it sends a delta, sends what was accumulated
\* before that step) sends no move and no scroll.
C33_DeltasBeforeDiscrete ==
  [][ Sent(card) \cap Discrete # {} => Sent(card') \cap {"move", "scroll"} = {} ]_vars

\* C34: whenever every finger that went down on the surface has been lifted
\* or cancelled, no contact is tracked and the gesture mode is none, also when
\* the lock was toggled while fingers were down.
C34_NoStaleContact ==
  DOMAIN fingers = {} => card.pointers = NoPointers /\ card.gesture = "none"

\* C35: in every reachable state the connection status is connected exactly
\* when the socket the card owns is open.
C35_StatusMatchesSocket ==
  card.status = "connected" <=> card.socket = "OPEN"

\* C36: an event delivered by a socket the card has already replaced or torn
\* down changes neither the connection status nor the socket the card owns,
\* and schedules no reconnect.
C36_StaleEventsIgnored ==
  [][ hist'.ev \in {"droppedclose", "droppedfail"} =>
        /\ card'.status = card.status
        /\ card'.socket = card.socket
        /\ card'.reconnectTimer = card.reconnectTimer ]_vars

\* C37: no accumulated delta is stranded: whenever the move or the scroll
\* accumulator is non-zero a frame flush is pending, and after every flush,
\* sendable or not, both accumulators are (0,0).
C37_NoStrandedDelta ==
  /\ [](NonZero(card.moveAccum) \/ NonZero(card.scrollAccum) =>
          card.rafHandle /\ card.frames = 1)
  /\ [][ hist'.ev = "frame" =>
           card'.moveAccum = Zero2 /\ card'.scrollAccum = Zero2 ]_vars

\* A contact has just moved with both accumulators holding a delta and the
\* frame not yet run.
C37_Witness ==
  /\ hist.ev = "move"
  /\ NonZero(card.moveAccum) /\ NonZero(card.scrollAccum)
  /\ card.rafHandle

\* C38: a double_click is sent only at the release of a qualifying tap that
\* follows, within doubleTapMs, the release of another qualifying tap whose
\* click has not been sent (its tap timer is still pending); the first tap
\* after load or after an answered tap never yields double_click.
C38_DoubleClickNeedsTwoTaps ==
  [][ "double_click" \in Sent(card') =>
        /\ hist'.tapped
        /\ hist.openTaps >= 1
        /\ card.tapTimer # NoTimer
        /\ now - card.lastTapTime <= card.doubleTapMs ]_vars

\* The displacement of the contacts of ptrs2 from their positions in ptrs, in
\* px: that of the one contact a pointer-move has moved.
Displacement(ptrs, ptrs2) ==
  <<SumX(ptrs2, DOMAIN ptrs2) - SumX(ptrs, DOMAIN ptrs),
    SumY(ptrs2, DOMAIN ptrs2) - SumY(ptrs, DOMAIN ptrs)>>

\* v + d * k / n, with d in px and v in units of 1/CentroidScale px.
PlusShare(v, d, n, k) ==
  <<v[1] + ((d[1] * CentroidScale) \div n) * k,
    v[2] + ((d[2] * CentroidScale) \div n) * k>>

\* C39: only the move of a tracked contact adds to an accumulator (a frame
\* flush zeroes them): adding or removing a contact adds nothing, and a move
\* by d with n tracked contacts adds d/n times sensitivity and speed
\* multiplier to the move accumulator when n = 1, and d/n times the scroll
\* multiplier, negated under invert-scroll, to the scroll accumulator when
\* n >= 2, leaving the other accumulator as it was.
C39_MoveAddsShare ==
  [][ LET n == Size(card.pointers)
          d == Displacement(card.pointers, card'.pointers)
          tracked == hist'.ev = "move" /\ ~card.locked /\ ~hist'.untracked
      IN /\ hist'.ev # "frame" /\ ~tracked =>
               card'.moveAccum = card.moveAccum /\ card'.scrollAccum = card.scrollAccum
         /\ tracked /\ n = 1 =>
               /\ card'.moveAccum =
                     PlusShare(card.moveAccum, d, 1, card.sensitivity * card.speedMultiplier)
               /\ card'.scrollAccum = card.scrollAccum
         /\ tracked /\ n >= 2 =>
               /\ card'.scrollAccum =
                     PlusShare(card.scrollAccum, d, n,
                               card.scrollMultiplier * (IF card.invertScroll THEN -1 ELSE 1))
               /\ card'.moveAccum = card.moveAccum ]_vars

====
